---- MODULE Spec2Model ----
(***************************************************************************)
(* A model of create_vulkan_wrapper.py: the generation pipeline export()   *)
(* and the helpers it rests on.                                            *)
(*                                                                         *)
(* Text.  A Python string is a sequence of pieces.  Wherever the code      *)
(* looks at single characters (to_snake_case, the prefixes 'Vk', 'VK_',    *)
(* 'vk', 'PFN_vk', 'p_', 'pp_', 'pfn_', the template marks) a piece is one *)
(* character; the rest of an identifier that the code never looks into     *)
(* ("Instance", "uint32_t") is one piece.  Concatenation is \o.            *)
(***************************************************************************)
EXTENDS Integers, Sequences, FiniteSets, TLC

Range(s) == { s[i] : i \in 1..Len(s) }

\* str.startswith
StartsWith(s, p) == Len(p) <= Len(s) /\ SubSeq(s, 1, Len(p)) = p

\* s[n::]
DropFirst(s, n) == SubSeq(s, n + 1, Len(s))

\* str.replace(old, new): every non-overlapping occurrence, left to right
RECURSIVE Replace(_, _, _)
Replace(s, old, new) ==
    IF s = <<>> THEN <<>>
    ELSE IF StartsWith(s, old) THEN new \o Replace(DropFirst(s, Len(old)), old, new)
    ELSE <<Head(s)>> \o Replace(Tail(s), old, new)

(***************************************************************************)
(* Module-level constants of the script.                                   *)
(***************************************************************************)
INDENT == 4

TYPES_MAP ==
    (<<"void">> :> <<"None">>) @@ (<<"void", "*">> :> <<"c_void_p">>) @@
    (<<"float">> :> <<"c_float">>) @@ (<<"uint8_t">> :> <<"c_uint8">>) @@
    (<<"uint32_t">> :> <<"c_uint">>) @@ (<<"uint64_t">> :> <<"c_uint64">>) @@
    (<<"int32_t">> :> <<"c_int">>) @@ (<<"size_t">> :> <<"c_size_t">>) @@
    (<<"char">> :> <<"c_char">>) @@ (<<"char", "*">> :> <<"c_char_p">>)

\* The initial value of DEFINED_IDENTIFIERS.
SEEDED_IDENTIFIERS ==
    << <<"HINSTANCE">>, <<"HWND">>, <<"None">>, <<"c_void_p">>, <<"c_float">>,
       <<"c_uint8">>, <<"c_cuint">>, <<"c_uint64">>, <<"c_int">>, <<"c_uint">>,
       <<"c_size_t">>, <<"c_char">>, <<"c_char_p">>, <<"xcb_connection_t">>,
       <<"xcb_window_t">>, <<"xcb_visualid_t">>, <<"MirConnection">>,
       <<"MirSurface">>, <<"wl_display">>, <<"wl_surface">>, <<"Display">>,
       <<"Window">>, <<"VisualID">>, <<"ANativeWindow">> >>

(***************************************************************************)
(* to_snake_case: re.sub('[^A-Z]([A-Z])[^A-Z]|[^A-Z]([A-Z])', lower, name) *)
(***************************************************************************)
UPPER == {"A", "B", "C", "D", "E", "F", "G", "H", "I", "J", "K", "L", "M",
          "N", "O", "P", "Q", "R", "S", "T", "U", "V", "W", "X", "Y", "Z"}

\* str.lower on one upper-case letter
ToLower(c) ==
    CASE c = "A" -> "a" [] c = "B" -> "b" [] c = "C" -> "c" [] c = "D" -> "d"
      [] c = "E" -> "e" [] c = "F" -> "f" [] c = "G" -> "g" [] c = "H" -> "h"
      [] c = "I" -> "i" [] c = "J" -> "j" [] c = "K" -> "k" [] c = "L" -> "l"
      [] c = "M" -> "m" [] c = "N" -> "n" [] c = "O" -> "o" [] c = "P" -> "p"
      [] c = "Q" -> "q" [] c = "R" -> "r" [] c = "S" -> "s" [] c = "T" -> "t"
      [] c = "U" -> "u" [] c = "V" -> "v" [] c = "W" -> "w" [] c = "X" -> "x"
      [] c = "Y" -> "y" [] c = "Z" -> "z" [] OTHER -> c

\* The replacement function of to_snake_case, on the matched text g0 with
\* first = TRUE when the three-character alternative matched (group 1 set).
lower(g0, first) ==
    IF first THEN <<g0[1], "_", ToLower(g0[2]), g0[3]>>
    ELSE <<g0[1], "_">> \o SubSeq(g0, 2, Len(g0))

\* re.sub scans left to right; at each position the first alternative is
\* tried before the second, a match is replaced and the scan goes on after
\* it, otherwise the character is copied.
RECURSIVE to_snake_case(_)
to_snake_case(name) ==
    IF name = <<>> THEN <<>>
    ELSE IF /\ Len(name) >= 3
            /\ name[1] \notin UPPER /\ name[2] \in UPPER /\ name[3] \notin UPPER
         THEN lower(SubSeq(name, 1, 3), TRUE) \o to_snake_case(DropFirst(name, 3))
    ELSE IF Len(name) >= 2 /\ name[1] \notin UPPER /\ name[2] \in UPPER
         THEN lower(SubSeq(name, 1, 2), FALSE) \o to_snake_case(DropFirst(name, 2))
    ELSE <<Head(name)>> \o to_snake_case(Tail(name))

\* One pass of the loop of pythonize_field_name over ('p_', 'pp_', 'pfn_').
StripPointerMark(name, p) == IF StartsWith(name, p) THEN DropFirst(name, Len(p)) ELSE name

pythonize_field_name(_name) ==
    StripPointerMark(
        StripPointerMark(
            StripPointerMark(to_snake_case(_name), <<"p", "_">>),
            <<"p", "p", "_">>),
        <<"p", "f", "n", "_">>)

PFN_vk == <<"P", "F", "N", "_", "v", "k">>

remove_prefix(name) ==
    IF StartsWith(name, <<"V", "k">>) THEN DropFirst(name, 2)
    ELSE IF StartsWith(name, <<"V", "K", "_">>) THEN DropFirst(name, 3)
    ELSE IF StartsWith(name, <<"v", "k">>) THEN DropFirst(name, 2)
    ELSE IF StartsWith(name, PFN_vk) \/ StartsWith(name, to_snake_case(PFN_vk))
         THEN Replace(name, PFN_vk, <<"fn_">>)
    ELSE name

\* map_ctypes on a str argument
map_ctypes(type_name) ==
    IF type_name \in DOMAIN TYPES_MAP THEN TYPES_MAP[type_name]
    ELSE remove_prefix(type_name)

format_array(_type, length) == <<"(">> \o _type \o <<"*">> \o length \o <<")">>

format_pointer(_type) ==
    IF _type = <<"None">> THEN TYPES_MAP[<<"void", "*">>]
    ELSE IF _type = <<"c_char">> THEN TYPES_MAP[<<"char", "*">>]
    ELSE <<"POINTER(">> \o _type \o <<")">>


(***************************************************************************)
(* Templates.  The three marks and the blanks are pieces of their own; a   *)
(* placeholder such as {NAME} is one piece.  The two long boilerplate      *)
(* templates are cut down to lines that carry each kind of mark.           *)
(***************************************************************************)
\* The grave accent, the indentation mark of the templates (the character
\* itself cannot be written in a string of this language).
BACKTICK == "<grave>"

WHITESPACE == {" ", "\n"}

\* "".join(ln.lstrip() for ln in template.splitlines(True)); at_start says
\* that nothing of the current line has been kept yet.
RECURSIVE lstrip_lines(_, _)
lstrip_lines(t, at_start) ==
    IF t = <<>> THEN <<>>
    ELSE IF at_start /\ Head(t) \in WHITESPACE THEN lstrip_lines(Tail(t), TRUE)
    ELSE <<Head(t)>> \o lstrip_lines(Tail(t), Head(t) = "\n")

lstrip_t(template) == lstrip_lines(template, TRUE)

Spaces(n) == [i \in 1..n |-> " "]

expand(template) ==
    Replace(Replace(Replace(template, <<BACKTICK>>, Spaces(INDENT)), <<"?">>, <<>>),
            <<"$">>, <<"\n">>)

\* The module attributes whose names end in TEMPLATE, as written in the source.
SOURCE_TEMPLATES ==
    [ IMPORTS_TEMPLATE |->
        <<"\n", "# -*- coding: utf-8 -*-", "\n", "from ctypes import (...)", "\n",
          "from platform import system", "\n">>,
      INITIALIZATION_TEMPLATE |->
        <<"\n", "# Sysem initialization", "\n", "system_name = system()", "\n",
          "if system_name == 'Windows':", "\n",
          BACKTICK, "from ctypes import WINFUNCTYPE, windll", "\n",
          "?", "\n", "HINSTANCE = c_void_p", "\n",
          "def MAKE_VERSION(major, minor, patch):", "\n",
          BACKTICK, "return (major<<22) | (minor<<12) | patch", "\n",
          "?", "\n", "API_VERSION_1_0 = MAKE_VERSION(1,0,0)", "\n">>,
      ARRAY_TEMPLATE |-> <<"(", "{ARRAY_TYPE}", "*", "{ARRAY_LENGTH}", ")">>,
      POINTER_TEMPLATE |-> <<"POINTER(", "{POINTER_TYPE}", ")">>,
      HANDLE_TEMPLATE |-> <<"{HANDLE_NAME}", " = ", "{HANDLE_TYPE}", "$">>,
      FLAG_TEMPLATE |-> <<"{FLAG_NAME}", " = c_uint", "$">>,
      BASETYPE_TEMPLATE |-> <<"{BASETYPE_NAME}", " = ", "{BASETYPE_TYPE}", "$">>,
      ENUM_LINE_TEMPLATE |-> <<"{ENUM_NAME}", " = ", "{ENUM_VALUE}", "$">>,
      ENUM_TEMPLATE |->
        <<"\n", "{ENUM_NAME}", " = c_uint", "\n", "{ENUM_LINES}", "\n">>,
      STRUCTURE_ARGS_TEMPLATE |->
        <<BACKTICK, "('", "{MEMBER_NAME}", "', ", "{MEMBER_TYPE}", "),", "$">>,
      STRUCTURE_TEMPLATE |->
        <<"\n", "{NAME}", " = define_structure('", "{NAME}", "',", "$", "{ARGS}",
          ")", "$", "\n">>,
      UNION_ARGS_TEMPLATE |->
        <<BACKTICK, "('", "{MEMBER_NAME}", "', ", "{MEMBER_TYPE}", "),", "$">>,
      UNION_TEMPLATE |->
        <<"\n", "{NAME}", " = define_union('", "{NAME}", "',", "$", "{ARGS}",
          ")", "$", "\n">>,
      FUNCTIONS_PROTOTYPE_ARGS_TEMPLATE |-> <<"{PROTOTYPE_ARG_TYPE}", ",", " ">>,
      FUNCTIONS_PROTOTYPE_TEMPLATE |->
        <<"{PROTOTYPE_NAME}", " = FUNCTYPE( ", "{PROTOTYPE_RETURN}", ",", " ",
          "{PROTOTYPE_ARGS}", ")", "$">>,
      COMMAND_ARGS_TEMPLATE |-> <<"{COMMAND_ARG_TYPE}", ",", " ">>,
      COMMAND_DEFINITION_TEMPLATE |->
        <<BACKTICK, "(b'", "{COMMAND_NAME}", "', ", "{COMMAND_RETURN}", ",", " ",
          "{COMMAND_ARGS}", "),", "$">>,
      COMMAND_TEMPLATE |->
        <<"{COMMAND_FAMILY_NAME}", "Functions = (", "$", "{COMMAND_DEFINITIONS}",
          ")", "$", "$">>,
      GET_INSTANCE_PROC_ADDR_TEMPLATE |->
        <<"\n", "{COMMAND_NAME}", " = vk.vk", "{COMMAND_NAME}", "\n",
          "{COMMAND_NAME}", ".restype = ", "{COMMAND_RETURN}", "\n",
          "{COMMAND_NAME}", ".argtypes = (", "{COMMAND_ARGS}", ")", "\n">>,
      EXTENSION_TEMPLATE |->
        <<"\n", "#", "{EXTENSION_NAME}", "\n", "{EXTENSION_ENUMS}", "\n">>,
      POST_INITIALIZATION_TEMPLATE |->
        <<"\n", "# Load the loader functions in the module namespace", "\n",
          "loc = locals()", "\n",
          "for name, fnptr in load_functions(Instance(0), LoaderFunctions, GetInstanceProcAddr):",
          "\n", BACKTICK, "loc[name] = fnptr", "\n", "del loc", "\n">> ]

\* prepare_templates: every *TEMPLATE attribute of the module is replaced by
\* expand(lstrip_t(.)) of its current value.
ExpandAll(templates) == [n \in DOMAIN templates |-> expand(lstrip_t(templates[n]))]

\* str.format with one keyword: the placeholder piece is replaced by the value.
Fmt1(t, k1, v1) == Replace(t, <<k1>>, v1)
Fmt2(t, k1, v1, k2, v2) == Fmt1(Fmt1(t, k1, v1), k2, v2)
Fmt3(t, k1, v1, k2, v2, k3, v3) == Fmt1(Fmt2(t, k1, v1, k2, v2), k3, v3)

\* ''.join over a sequence of strings
RECURSIVE Join(_)
Join(ss) == IF ss = <<>> THEN <<>> ELSE Head(ss) \o Join(Tail(ss))

\* str.strip(chars), str.endswith
RECURSIVE LStrip(_, _)
LStrip(s, chars) ==
    IF s # <<>> /\ Head(s) \in chars THEN LStrip(Tail(s), chars) ELSE s

RECURSIVE RStrip(_, _)
RStrip(s, chars) ==
    IF s # <<>> /\ s[Len(s)] \in chars THEN RStrip(SubSeq(s, 1, Len(s) - 1), chars) ELSE s

Strip(s, chars) == RStrip(LStrip(s, chars), chars)

EndsWith(s, p) == Len(p) <= Len(s) /\ SubSeq(s, Len(s) - Len(p) + 1, Len(s)) = p

\* TYPES_SUFFIX in the order the dict is written and iterated.
TYPES_SUFFIX ==
    << [suffix |-> <<"U">>, type_ |-> <<"c_uint">>],
       [suffix |-> <<"U", "L", "L">>, type_ |-> <<"c_uint64">>],
       [suffix |-> <<"f">>, type_ |-> <<"c_float">>] >>

RECURSIVE pythonize_suffix(_, _)
pythonize_suffix(value, i) ==
    IF i > Len(TYPES_SUFFIX) THEN value
    ELSE IF EndsWith(value, TYPES_SUFFIX[i].suffix)
         THEN TYPES_SUFFIX[i].type_ \o <<"(">>
              \o SubSeq(value, 1, Len(value) - Len(TYPES_SUFFIX[i].suffix)) \o <<")">>
    ELSE pythonize_suffix(value, i + 1)

pythonize_value(value) == pythonize_suffix(Strip(value, {"(", ")"}), 1)

(***************************************************************************)
(* The input document (vk.xml after ElementTree.fromstring).  An absent    *)
(* attribute, text or element (None) is the empty sequence.                *)
(***************************************************************************)
None == <<>>

Vk(body) == <<"V", "k", body>>
vk(body) == <<"v", "k", body>>
VK_(body) == <<"V", "K", "_", body>>

\* <member><type>T</type>tail <name>n</name>name_tail <enum>e</enum></member>
Member(type, tail, name, name_tail, enum) ==
    [type |-> type, tail |-> tail, name |-> name, name_tail |-> name_tail, enum |-> enum]

\* Bounds of the documents the checks run over.
MaxDeps == 3
MaxCommands == 3

\* The member every structure or union of the documents starts with.
sType == Member(<<"uint32_t">>, <<" ">>, <<"s", "T", "y", "p", "e">>, <<>>, None)

\* The members a structure or union may have besides: a pointer to the first
\* structure, the second structure by value, the union by value (an array of
\* two), a name that no structure or union of the document has (an array
\* whose length is an API constant).
MEMBER_KINDS ==
    { Member(Vk("Alpha"), <<"*", " ">>, <<"p", "N", "e", "x", "t">>, <<>>, None),
      Member(Vk("Beta"), <<" ">>, <<"b", "e", "t", "a">>, <<>>, None),
      Member(Vk("Uni"), <<" ">>, <<"c", "l", "e", "a", "r">>, <<"[", "2", "]">>, None),
      Member(Vk("Missing"), <<" ">>, <<"p", "p", "D", "a", "t", "a">>, <<"[">>,
             VK_("MAX_NAME")) }

SeqsUpTo(S, n) == UNION { [1..k -> S] : k \in 0..n }

Entity(name, members) == [name |-> name, members |-> members]

\* The structures and unions of a document: the variable members ms are dealt
\* out, in order, to the structures Alpha and Beta and the union Uni.
StructTypes(ms, i, j) ==
    << Entity(Vk("Alpha"), <<sType>> \o SubSeq(ms, 1, i)),
       Entity(Vk("Beta"), <<sType>> \o SubSeq(ms, i + 1, j)) >>

UnionTypes(ms, i, j) ==
    << Entity(Vk("Uni"), <<sType>> \o SubSeq(ms, j + 1, Len(ms))) >>

Handle(name, macro) == [name |-> name, type |-> macro]

HANDLE_CHOICES ==
    { << Handle(Vk("Instance"), <<"VK_DEFINE_HANDLE">>),
         Handle(Vk("Device"), <<"VK_DEFINE_HANDLE">>),
         Handle(Vk("Queue"), <<"VK_DEFINE_HANDLE">>) >>,
      << Handle(Vk("Instance"), <<"VK_DEFINE_HANDLE">>),
         Handle(Vk("Device"), <<"VK_DEFINE_HANDLE">>),
         Handle(Vk("Fence"), <<"VK_DEFINE_NON_DISPATCHABLE_HANDLE">>) >>,
      << Handle(Vk("Device"), <<"VK_DEFINE_HANDLE">>) >> }

\* <param><type>T</type>tail ...</param>; a param without a type element has
\* type None.
Param(type, tail) == [type |-> type, tail |-> tail]

Command(name, ret, params) == [name |-> name, ret |-> ret, params |-> params]

vkGetInstanceProcAddr ==
    Command(vk("GetInstanceProcAddr"), PFN_vk \o <<"VoidFunction">>,
            << Param(Vk("Instance"), <<" ">>), Param(<<"char">>, <<"*", " ">>) >>)

vkGetDeviceProcAddr ==
    Command(vk("GetDeviceProcAddr"), PFN_vk \o <<"VoidFunction">>,
            << Param(Vk("Device"), <<" ">>), Param(<<"char">>, <<"*", " ">>) >>)

COMMAND_KINDS ==
    { vkGetInstanceProcAddr,
      vkGetDeviceProcAddr,
      Command(vk("CreateInstance"), Vk("Result"),
              << Param(Vk("Alpha"), <<"*", " ">>), Param(Vk("Instance"), <<"*", " ">>) >>),
      Command(vk("DestroyDevice"), <<"void">>,
              << Param(Vk("Device"), <<" ">>), Param(<<"void">>, <<"*", " ">>) >>),
      Command(vk("QueueWaitIdle"), Vk("Result"), << Param(Vk("Queue"), <<" ">>) >>),
      Command(vk("Nop"), <<"void">>, << Param(None, None) >>) }

\* Lists without repetition
InjectiveSeqs(S, n) ==
    { q \in SeqsUpTo(S, n) : \A a, b \in 1..Len(q) : a # b => q[a] # q[b] }

DEFAULT_COMMANDS ==
    << vkGetInstanceProcAddr,
       Command(vk("CreateInstance"), Vk("Result"),
               << Param(Vk("Alpha"), <<"*", " ">>), Param(Vk("Instance"), <<"*", " ">>) >>),
       Command(vk("DestroyDevice"), <<"void">>,
               << Param(Vk("Device"), <<" ">>), Param(<<"void">>, <<"*", " ">>) >>) >>

DEFAULT_HANDLES ==
    << Handle(Vk("Instance"), <<"VK_DEFINE_HANDLE">>),
       Handle(Vk("Device"), <<"VK_DEFINE_HANDLE">>) >>

EnumMem(name, value, bitpos) == [name |-> name, value |-> value, bitpos |-> bitpos]

ExtEnum(name, value, bitpos, offset, dir) ==
    [name |-> name, value |-> value, bitpos |-> bitpos, offset |-> offset, dir |-> dir]

\* A document.  Only the handles, the structures, the unions and the commands
\* vary; the other collections are the same in every document.
Document(handles, structs, unions, commands) ==
    [ handle |-> handles,
      basetype |-> << [name |-> Vk("Bool32"), type |-> <<"uint32_t">>, tail |-> <<" ">>] >>,
      bitmask |-> << [name |-> Vk("Flags")] >>,
      enums |->
        << [ name |-> <<"API", " ", "Constants">>,
             mems |-> << EnumMem(VK_("MAX_NAME"), <<"256">>, None),
                         EnumMem(VK_("WHOLE_SIZE"), <<"(", "~0", "U", "L", "L", ")">>, None) >> ],
           [ name |-> Vk("Result"),
             mems |-> << EnumMem(VK_("SUCCESS"), <<"0">>, None),
                         EnumMem(VK_("CULL_BIT"), None, <<"1">>) >> ] >>,
      funcpointer |->
        << [ name |-> PFN_vk \o <<"VoidFunction">>,
             text |-> <<"typedef", " ", "void", " ", "(VKAPI_PTR *">>,
             args |-> << Param(<<"void">>, <<"*", " ">>), Param(<<"size_t">>, <<" ">>) >> ] >>,
      struct |-> structs,
      union |-> unions,
      commands |-> commands,
      extensions |->
        << [ name |-> VK_("KHR_surface"), number |-> 1,
             enums |-> << ExtEnum(VK_("KHR_SURFACE_SPEC_VERSION"), <<"25">>, None, None, None),
                          ExtEnum(VK_("ERROR_SURFACE_LOST_KHR"), None, None, <<0>>, <<"-">>),
                          ExtEnum(VK_("SURFACE_BIT_KHR"), None, <<"3">>, None, None) >> ],
           [ name |-> VK_("RESERVED_5"), number |-> 5,
             enums |-> << ExtEnum(VK_("RESERVED_5_SPEC_VERSION"), <<"0">>, None, None, None) >> ] >> ]

\* Documents whose structures and unions vary.
STRUCT_DOCUMENTS ==
    { Document(DEFAULT_HANDLES, StructTypes(ms, ij[1], ij[2]), UnionTypes(ms, ij[1], ij[2]),
               DEFAULT_COMMANDS) :
        <<ms, ij>> \in { x \in SeqsUpTo(MEMBER_KINDS, MaxDeps) \X ((0..MaxDeps) \X (0..MaxDeps)) :
                           x[2][1] <= x[2][2] /\ x[2][2] <= Len(x[1]) } }

\* Documents whose handles and commands vary.
COMMAND_DOCUMENTS ==
    { Document(hs, StructTypes(<<>>, 0, 0), UnionTypes(<<>>, 0, 0), cs) :
        <<hs, cs>> \in HANDLE_CHOICES \X InjectiveSeqs(COMMAND_KINDS, MaxCommands) }

DOCUMENTS == STRUCT_DOCUMENTS \cup COMMAND_DOCUMENTS

(***************************************************************************)
(* The state of the program.                                               *)
(***************************************************************************)
VARIABLES
    xml_file,             \* the document found at SHARED['xml_path']
    pc,                   \* the statement of export() that runs next
    root,                 \* SHARED['root']: None, or <<the parsed document>>
    out,                  \* what has been written to SHARED['output']
    files,                \* the contents of the output files closed so far
    TEMPLATES,            \* the *TEMPLATE attributes of the module
    HANDLE_NAMES,
    DEFINED_IDENTIFIERS,
    loop,                 \* parse_structures_and_unions: index of the next entity
    stack,                \* the active calls of parse_struct_or_enum, innermost last
    commands_groups,      \* parse_commands: the dict, in insertion order
    get_instance_proc_addr_info,
    command_i,            \* parse_commands: index of the next command
    printed,              \* what print() has written
    snake_name,           \* a caller of to_snake_case: the identifier it holds
    snake_results         \* ... and the results of the calls made on it so far

vars == << xml_file, pc, root, out, files, TEMPLATES, HANDLE_NAMES, DEFINED_IDENTIFIERS,
           loop, stack, commands_groups, get_instance_proc_addr_info, command_i,
           printed, snake_name, snake_results >>

export_vars == << pc, root, out, files, TEMPLATES, HANDLE_NAMES, DEFINED_IDENTIFIERS,
                  loop, stack, commands_groups, get_instance_proc_addr_info, command_i,
                  printed >>

\* One o.write(text).  The other fields describe the text: the stage that
\* wrote it, whether it is a declaration, the identifier it declares, the
\* names it refers to (a declaration's members' base types, a family's
\* commands) and, for a structure or union, its (name, type) pairs.
Entry(stage, kind, decl, uses, text) ==
    [ stage |-> stage, kind |-> kind, decl |-> decl, uses |-> uses, fields |-> <<>>,
      text |-> text ]

Header(stage, text) == Entry(stage, "header", None, <<>>, text)
Footer(stage) == Entry(stage, "footer", None, <<>>, <<"\n">>)

\* [f(x) for x in xs]
Map(f(_), xs) == [i \in 1..Len(xs) |-> f(xs[i])]

\* first(x for x in xs if x.get('name') == n): <<x>>, or None
RECURSIVE first_named(_, _)
first_named(xs, n) ==
    IF xs = <<>> THEN None
    ELSE IF Head(xs).name = n THEN <<Head(xs)>>
    ELSE first_named(Tail(xs), n)

\* map_ctypes on an element: type_name = (text + tail[0]).strip(), with
\* tail = '' when the element has no tail
map_ctypes_elem(type_item) ==
    map_ctypes(Strip(type_item.type \o
                       (IF type_item.tail # None THEN <<type_item.tail[1]>> ELSE <<>>),
                     WHITESPACE))

Doc == root[1]

\* The statements of export(), in the order it runs them.
EXPORT ==
    << "prepare_templates", "load_xml", "begin_generation", "add_imports",
       "add_initialization", "parse_basetypes", "parse_handles", "parse_flags",
       "parse_enums", "parse_funcpointers", "parse_structures_and_unions",
       "parse_commands", "parse_extensions", "add_post_initialization",
       "end_generation" >>

\* A faulty variant of after: the flags stage and the enumerations stage have
\* changed places.
after_Swapped(statement) ==
    CASE statement = "parse_handles" -> "parse_enums"
      [] statement = "parse_enums" -> "parse_flags"
      [] statement = "parse_flags" -> "parse_funcpointers"
      [] OTHER -> LET i == CHOOSE k \in 1..Len(EXPORT) : EXPORT[k] = statement
                  IN IF i = Len(EXPORT) THEN "done" ELSE EXPORT[i + 1]

\* The statement export() runs when statement returns ("done": export returns).
after(statement) ==
    LET i == CHOOSE k \in 1..Len(EXPORT) : EXPORT[k] = statement
    IN IF i = Len(EXPORT) THEN "done" ELSE EXPORT[i + 1]

(***************************************************************************)
(* export(): the statements before the entity stages                       *)
(***************************************************************************)
prepare_templates ==
    /\ pc = "prepare_templates"
    /\ TEMPLATES' = ExpandAll(TEMPLATES)
    /\ pc' = after("prepare_templates")
    /\ UNCHANGED << xml_file, root, out, files, HANDLE_NAMES, DEFINED_IDENTIFIERS, loop,
                    stack, commands_groups, get_instance_proc_addr_info, command_i,
                    printed, snake_name, snake_results >>

\* load_xml opens the document at SHARED['xml_path'].
load_xml ==
    /\ pc = "load_xml"
    /\ pc' = after("load_xml")
    /\ UNCHANGED << xml_file, root, out, files, TEMPLATES, HANDLE_NAMES,
                    DEFINED_IDENTIFIERS, loop, stack, commands_groups,
                    get_instance_proc_addr_info, command_i, printed, snake_name,
                    snake_results >>

\* begin_generation opens the output file for writing, which empties it, and
\* parses the document.
begin_generation ==
    /\ pc = "begin_generation"
    /\ out' = <<>>
    /\ root' = <<xml_file>>
    /\ pc' = after("begin_generation")
    /\ UNCHANGED << xml_file, files, TEMPLATES, HANDLE_NAMES, DEFINED_IDENTIFIERS, loop,
                    stack, commands_groups, get_instance_proc_addr_info, command_i,
                    printed, snake_name, snake_results >>

add_imports ==
    /\ pc = "add_imports"
    /\ out' = Append(out, Header("imports", TEMPLATES.IMPORTS_TEMPLATE))
    /\ pc' = after("add_imports")
    /\ UNCHANGED << xml_file, root, files, TEMPLATES, HANDLE_NAMES, DEFINED_IDENTIFIERS,
                    loop, stack, commands_groups, get_instance_proc_addr_info, command_i,
                    printed, snake_name, snake_results >>

add_initialization ==
    /\ pc = "add_initialization"
    /\ out' = Append(out, Header("initialization",
                  <<"\n", "\n">> \o TEMPLATES.INITIALIZATION_TEMPLATE \o <<"\n">>))
    /\ pc' = after("add_initialization")
    /\ UNCHANGED << xml_file, root, files, TEMPLATES, HANDLE_NAMES, DEFINED_IDENTIFIERS,
                    loop, stack, commands_groups, get_instance_proc_addr_info, command_i,
                    printed, snake_name, snake_results >>

(***************************************************************************)
(* The stages that declare one identifier per element                      *)
(***************************************************************************)
basetype_name(basetype) == remove_prefix(basetype.name)

basetype_entry(basetype) ==
    Entry("basetypes", "decl", basetype_name(basetype), <<>>,
          Fmt2(TEMPLATES.BASETYPE_TEMPLATE, "{BASETYPE_NAME}", basetype_name(basetype),
               "{BASETYPE_TYPE}", map_ctypes_elem(basetype)))

parse_basetypes ==
    /\ pc = "parse_basetypes"
    /\ out' = out \o <<Header("basetypes", <<"\n", "# BASETYPES", "\n", "\n">>)>>
                  \o Map(basetype_entry, Doc.basetype) \o <<Footer("basetypes")>>
    /\ DEFINED_IDENTIFIERS' = DEFINED_IDENTIFIERS \o Map(basetype_name, Doc.basetype)
    /\ pc' = after("parse_basetypes")
    /\ UNCHANGED << xml_file, root, files, TEMPLATES, HANDLE_NAMES, loop, stack,
                    commands_groups, get_instance_proc_addr_info, command_i, printed,
                    snake_name, snake_results >>

handle_name(handle) == remove_prefix(handle.name)

handle_type(handle) ==
    IF handle.type = <<"VK_DEFINE_HANDLE">> THEN TYPES_MAP[<<"size_t">>]
    ELSE TYPES_MAP[<<"uint64_t">>]

handle_entry(handle) ==
    Entry("handles", "decl", handle_name(handle), <<>>,
          Fmt2(TEMPLATES.HANDLE_TEMPLATE, "{HANDLE_NAME}", handle_name(handle),
               "{HANDLE_TYPE}", handle_type(handle)))

parse_handles ==
    /\ pc = "parse_handles"
    /\ out' = out \o <<Header("handles", <<"\n", "# HANDLES", "\n", "\n">>)>>
                  \o Map(handle_entry, Doc.handle) \o <<Footer("handles")>>
    /\ HANDLE_NAMES' = HANDLE_NAMES \o Map(handle_name, Doc.handle)
    /\ DEFINED_IDENTIFIERS' = DEFINED_IDENTIFIERS \o Map(handle_name, Doc.handle)
    /\ pc' = after("parse_handles")
    /\ UNCHANGED << xml_file, root, files, TEMPLATES, loop, stack, commands_groups,
                    get_instance_proc_addr_info, command_i, printed, snake_name, snake_results >>

flag_name(flag) == remove_prefix(flag.name)

flag_entry(flag) ==
    Entry("flags", "decl", flag_name(flag), <<>>,
          Fmt1(TEMPLATES.FLAG_TEMPLATE, "{FLAG_NAME}", flag_name(flag)))

parse_flags ==
    /\ pc = "parse_flags"
    /\ out' = out \o <<Header("flags", <<"\n", "# FLAGS", "\n", "\n">>)>>
                  \o Map(flag_entry, Doc.bitmask) \o <<Footer("flags")>>
    /\ DEFINED_IDENTIFIERS' = DEFINED_IDENTIFIERS \o Map(flag_name, Doc.bitmask)
    /\ pc' = after("parse_flags")
    /\ UNCHANGED << xml_file, root, files, TEMPLATES, HANDLE_NAMES, loop, stack,
                    commands_groups, get_instance_proc_addr_info, command_i, printed,
                    snake_name, snake_results >>

enum_name(enum) == remove_prefix(Replace(enum.name, <<" ">>, <<"_">>))

value_or_bitpos(x) == IF x.value # None THEN x.value ELSE <<"1<<">> \o x.bitpos

enum_line(enum_mem) ==
    Fmt2(TEMPLATES.ENUM_LINE_TEMPLATE, "{ENUM_NAME}", remove_prefix(enum_mem.name),
         "{ENUM_VALUE}", pythonize_value(value_or_bitpos(enum_mem)))

enum_entry(enum) ==
    Entry("enums", "decl", enum_name(enum), <<>>,
          Fmt2(TEMPLATES.ENUM_TEMPLATE, "{ENUM_NAME}", enum_name(enum),
               "{ENUM_LINES}", Join(Map(enum_line, enum.mems))))

parse_enums ==
    /\ pc = "parse_enums"
    /\ out' = out \o <<Header("enums", <<"# ENUMS", "\n", "\n">>)>>
                  \o Map(enum_entry, Doc.enums)
    /\ DEFINED_IDENTIFIERS' = DEFINED_IDENTIFIERS \o Map(enum_name, Doc.enums)
    /\ pc' = after("parse_enums")
    /\ UNCHANGED << xml_file, root, files, TEMPLATES, HANDLE_NAMES, loop, stack,
                    commands_groups, get_instance_proc_addr_info, command_i, printed,
                    snake_name, snake_results >>

funcpointer_name(ptr) == remove_prefix(ptr.name)

extract_return_type(text) ==
    map_ctypes(Strip(Replace(Replace(text, <<"typedef">>, <<>>), <<"(VKAPI_PTR *">>, <<>>),
                     WHITESPACE))

prototype_arg(t) ==
    Fmt1(TEMPLATES.FUNCTIONS_PROTOTYPE_ARGS_TEMPLATE, "{PROTOTYPE_ARG_TYPE}",
         map_ctypes_elem(t))

funcpointer_entry(ptr) ==
    Entry("funcpointers", "decl", funcpointer_name(ptr), <<>>,
          Fmt3(TEMPLATES.FUNCTIONS_PROTOTYPE_TEMPLATE, "{PROTOTYPE_NAME}",
               funcpointer_name(ptr), "{PROTOTYPE_ARGS}", Join(Map(prototype_arg, ptr.args)),
               "{PROTOTYPE_RETURN}", extract_return_type(ptr.text)))

parse_funcpointers ==
    /\ pc = "parse_funcpointers"
    /\ out' = out \o <<Header("funcpointers", <<"\n", "# FUNC POINTERS", "\n", "\n">>)>>
                  \o Map(funcpointer_entry, Doc.funcpointer) \o <<Footer("funcpointers")>>
    /\ DEFINED_IDENTIFIERS' = DEFINED_IDENTIFIERS \o Map(funcpointer_name, Doc.funcpointer)
    /\ pc' = after("parse_funcpointers")
    /\ UNCHANGED << xml_file, root, files, TEMPLATES, HANDLE_NAMES, loop, stack,
                    commands_groups, get_instance_proc_addr_info, command_i, printed,
                    snake_name, snake_results >>

(***************************************************************************)
(* parse_structures_and_unions and parse_struct_or_enum                    *)
(***************************************************************************)
\* parse_structure_member
member_type_pointers(mem_type, tail) ==
    LET ptr_level == Cardinality({ i \in 1..Len(tail) : tail[i] = "*" })
        wrapped[n \in 0..ptr_level] ==
            IF n = 0 THEN mem_type ELSE format_pointer(wrapped[n - 1])
    IN wrapped[ptr_level]

parse_structure_member(struct_mem) ==
    LET mem_type == member_type_pointers(map_ctypes(struct_mem.type), struct_mem.tail)
        is_array == struct_mem.enum # None
                    \/ (struct_mem.name_tail # None /\ struct_mem.name_tail[1] = "[")
        array_length ==
            IF struct_mem.enum = None
            THEN Replace(Replace(struct_mem.name_tail, <<"[">>, <<>>), <<"]">>, <<>>)
            ELSE remove_prefix(struct_mem.enum)
    IN [ name |-> pythonize_field_name(struct_mem.name),
         type |-> IF is_array THEN format_array(mem_type, array_length) ELSE mem_type ]

\* The structures, then the unions, that the two loops of
\* parse_structures_and_unions call parse_struct_or_enum on (both loops leave
\* is_struct at its default).
TopLevel == Doc.struct \o Doc.union

parse_structures_and_unions ==
    /\ pc = "parse_structures_and_unions"
    /\ out' = Append(out, Header("structures", <<"\n", "# STRUCTURES", "\n", "\n">>))
    /\ loop' = 1
    /\ pc' = "structures_loop"
    /\ UNCHANGED << xml_file, root, files, TEMPLATES, HANDLE_NAMES, DEFINED_IDENTIFIERS,
                    stack, commands_groups, get_instance_proc_addr_info, command_i,
                    printed, snake_name, snake_results >>

\* A faulty variant of the test below: the early return is never taken.
AlreadyDefined_Never(defined, struct_name) == FALSE

\* "if struct_name in DEFINED_IDENTIFIERS: return"
AlreadyDefined(defined, struct_name) == struct_name \in Range(defined)

\* A faulty variant of the statement below: the name is not recorded.
MarkDefined_Forgotten(defined, struct_name) == defined

\* "else: DEFINED_IDENTIFIERS.append(struct_name)", on entry
MarkDefined(defined, struct_name) == Append(defined, struct_name)

Frame(struct, is_struct) ==
    [ struct_name |-> remove_prefix(struct.name), members |-> struct.members,
      is_struct |-> is_struct, i |-> 1 ]

\* A call parse_struct_or_enum(struct, o, is_struct) made with the calls stk
\* active: up to the start of the loop over the members' types.
Call(struct, is_struct, stk) ==
    IF AlreadyDefined(DEFINED_IDENTIFIERS, remove_prefix(struct.name))
    THEN /\ stack' = stk
         /\ UNCHANGED DEFINED_IDENTIFIERS
    ELSE /\ DEFINED_IDENTIFIERS' = MarkDefined(DEFINED_IDENTIFIERS, remove_prefix(struct.name))
         /\ stack' = Append(stk, Frame(struct, is_struct))

\* One turn of a loop of parse_structures_and_unions.
call_top_level ==
    /\ pc = "structures_loop"
    /\ stack = <<>>
    /\ loop <= Len(TopLevel)
    /\ Call(TopLevel[loop], TRUE, stack)
    /\ loop' = loop + 1
    /\ UNCHANGED << xml_file, pc, root, out, files, TEMPLATES, HANDLE_NAMES,
                    commands_groups, get_instance_proc_addr_info, command_i, printed,
                    snake_name, snake_results >>

Top == stack[Len(stack)]

\* "struct or union": an Element without children is false.
StructOrUnion(struct, union) ==
    IF struct # None /\ struct[1].members # <<>> THEN struct ELSE union

\* A faulty variant of the test below: a name that nothing declares is not
\* told apart, and the call on "struct or union" is made.
NotFound_Never(struct, union) == FALSE

\* "if struct is None and union is None"
NotFound(struct, union) == struct = None /\ union = None

\* One turn of "for t in struct_types" in the innermost active call.
resolve_dependency ==
    /\ pc = "structures_loop"
    /\ stack # <<>>
    /\ Top.i <= Len(Top.members)
    /\ LET t == map_ctypes(Top.members[Top.i].type)
           stk == [stack EXCEPT ![Len(stack)].i = @ + 1]
           struct == first_named(Doc.struct, <<"V", "k">> \o t)
           union == first_named(Doc.union, <<"V", "k">> \o t)
       IN IF t \in Range(DEFINED_IDENTIFIERS)
          THEN /\ stack' = stk
               /\ UNCHANGED << pc, DEFINED_IDENTIFIERS, printed >>
          ELSE IF NotFound(struct, union)
          THEN /\ printed' = Append(printed, t \o <<" was not found">>)
               /\ stack' = stk
               /\ UNCHANGED << pc, DEFINED_IDENTIFIERS >>
          ELSE IF StructOrUnion(struct, union) = None
          THEN \* None.get('name') raises AttributeError
               /\ pc' = "crashed"
               /\ stack' = stk
               /\ UNCHANGED << DEFINED_IDENTIFIERS, printed >>
          ELSE /\ Call(StructOrUnion(struct, union)[1], union = None, stk)
               /\ UNCHANGED << pc, printed >>
    /\ UNCHANGED << xml_file, root, out, files, TEMPLATES, HANDLE_NAMES, loop,
                    commands_groups, get_instance_proc_addr_info, command_i,
                    snake_name, snake_results >>

member_base_type(struct_mem) == map_ctypes(struct_mem.type)

struct_entry(frame) ==
    LET MEMBER_TEMPLATE == IF frame.is_struct THEN TEMPLATES.STRUCTURE_ARGS_TEMPLATE
                           ELSE TEMPLATES.UNION_ARGS_TEMPLATE
        MAIN_TEMPLATE == IF frame.is_struct THEN TEMPLATES.STRUCTURE_TEMPLATE
                         ELSE TEMPLATES.UNION_TEMPLATE
        struct_mem(m) == Fmt2(MEMBER_TEMPLATE, "{MEMBER_NAME}", parse_structure_member(m).name,
                              "{MEMBER_TYPE}", parse_structure_member(m).type)
    IN [ Entry("structures", "decl", frame.struct_name,
               Map(member_base_type, frame.members),
               Fmt2(MAIN_TEMPLATE, "{NAME}", frame.struct_name,
                    "{ARGS}", Join(Map(struct_mem, frame.members))))
         EXCEPT !.fields = Map(parse_structure_member, frame.members) ]

\* The end of the innermost active call: the declaration is written and the
\* call returns.
write_declaration ==
    /\ pc = "structures_loop"
    /\ stack # <<>>
    /\ Top.i > Len(Top.members)
    /\ out' = Append(out, struct_entry(Top))
    /\ stack' = SubSeq(stack, 1, Len(stack) - 1)
    /\ UNCHANGED << xml_file, pc, root, files, TEMPLATES, HANDLE_NAMES,
                    DEFINED_IDENTIFIERS, loop, commands_groups,
                    get_instance_proc_addr_info, command_i, printed, snake_name,
                    snake_results >>

\* Both loops are over: parse_structures_and_unions returns.
structures_done ==
    /\ pc = "structures_loop"
    /\ stack = <<>>
    /\ loop > Len(TopLevel)
    /\ pc' = after("parse_structures_and_unions")
    /\ UNCHANGED << xml_file, root, out, files, TEMPLATES, HANDLE_NAMES,
                    DEFINED_IDENTIFIERS, loop, stack, commands_groups,
                    get_instance_proc_addr_info, command_i, printed, snake_name,
                    snake_results >>

(***************************************************************************)
(* parse_commands                                                          *)
(***************************************************************************)
parse_command_argument_type(argtype) ==
    LET cmd_arg_type == map_ctypes(argtype.type)
    IN Fmt1(TEMPLATES.COMMAND_ARGS_TEMPLATE, "{COMMAND_ARG_TYPE}",
            IF argtype.tail # None /\ argtype.tail[1] = "*"
            THEN format_pointer(cmd_arg_type) ELSE cmd_arg_type)

has_type(p) == p.type # None

parse_commands ==
    /\ pc = "parse_commands"
    /\ out' = Append(out, Header("commands", <<"\n", "# FUNCTIONS ", "\n", "\n">>))
    /\ get_instance_proc_addr_info' = None
    /\ commands_groups' = <<>>
    /\ command_i' = 1
    /\ pc' = "commands_loop"
    /\ UNCHANGED << xml_file, root, files, TEMPLATES, HANDLE_NAMES, DEFINED_IDENTIFIERS,
                    loop, stack, printed, snake_name, snake_results >>

\* A faulty variant of group_key_of: the test against HANDLE_NAMES is missing.
group_key_of_Unchecked(command_name, first_param_type, handle_names) ==
    IF command_name = vk("GetDeviceProcAddr") THEN <<"Instance">>
    ELSE map_ctypes(first_param_type)

\* The family a command that is not the entry point is filed under.
group_key_of(command_name, first_param_type, handle_names) ==
    IF map_ctypes(first_param_type) \notin Range(handle_names) THEN <<"Loader">>
    ELSE IF command_name = vk("GetDeviceProcAddr") THEN <<"Instance">>
    ELSE map_ctypes(first_param_type)

\* A faulty variant of add_to_group: the append is not under an else, so the
\* command that opens a family is filed in it twice.
add_to_group_NoElse(groups, group_key, cmd) ==
    IF \E g \in 1..Len(groups) : groups[g].key = group_key
    THEN [g \in 1..Len(groups) |->
            IF groups[g].key = group_key
            THEN [groups[g] EXCEPT !.cmds = Append(@, cmd)] ELSE groups[g]]
    ELSE Append(groups, [key |-> group_key, cmds |-> <<cmd, cmd>>])

\* "if group_key not in commands_groups.keys(): ... else: ...append(cmd)"
add_to_group(groups, group_key, cmd) ==
    IF \E g \in 1..Len(groups) : groups[g].key = group_key
    THEN [g \in 1..Len(groups) |->
            IF groups[g].key = group_key
            THEN [groups[g] EXCEPT !.cmds = Append(@, cmd)] ELSE groups[g]]
    ELSE Append(groups, [key |-> group_key, cmds |-> <<cmd>>])

\* One turn of "for command in commands".
command_step ==
    /\ pc = "commands_loop"
    /\ command_i <= Len(Doc.commands)
    /\ LET command == Doc.commands[command_i]
           command_type == map_ctypes(command.ret)
           command_name == command.name
           _command_params == SelectSeq(command.params, has_type)
           command_params == Join(Map(parse_command_argument_type, _command_params))
           cmd == Fmt3(TEMPLATES.COMMAND_DEFINITION_TEMPLATE, "{COMMAND_NAME}", command_name,
                       "{COMMAND_RETURN}", command_type, "{COMMAND_ARGS}", command_params)
       IN IF command_name = vk("GetInstanceProcAddr")
          THEN /\ get_instance_proc_addr_info' =
                     << [ name |-> remove_prefix(command_name), type |-> command_type,
                          params |-> command_params ] >>
               /\ command_i' = command_i + 1
               /\ UNCHANGED << pc, commands_groups >>
          ELSE IF _command_params = <<>>
          THEN \* _command_params[0] raises IndexError
               /\ pc' = "crashed"
               /\ UNCHANGED << command_i, commands_groups, get_instance_proc_addr_info >>
          ELSE /\ commands_groups' =
                     add_to_group(commands_groups,
                                  group_key_of(command_name, _command_params[1].type,
                                               HANDLE_NAMES),
                                  [command_name |-> command_name, cmd |-> cmd])
               /\ command_i' = command_i + 1
               /\ UNCHANGED << pc, get_instance_proc_addr_info >>
    /\ UNCHANGED << xml_file, root, out, files, TEMPLATES, HANDLE_NAMES,
                    DEFINED_IDENTIFIERS, loop, stack, printed, snake_name,
                    snake_results >>

cmd_name(c) == c.command_name
cmd_text(c) == c.cmd

\* "for cmd_family, cmds in commands_groups.items()": a dict is iterated in
\* insertion order.
family_entry(group) ==
    Entry("commands", "family", group.key, Map(cmd_name, group.cmds),
          Fmt2(TEMPLATES.COMMAND_TEMPLATE, "{COMMAND_FAMILY_NAME}", group.key,
               "{COMMAND_DEFINITIONS}", Join(Map(cmd_text, group.cmds))))

bootstrap_entry(info) ==
    Entry("commands", "bootstrap", info.name, <<>>,
          Fmt3(TEMPLATES.GET_INSTANCE_PROC_ADDR_TEMPLATE, "{COMMAND_NAME}", info.name,
               "{COMMAND_RETURN}", info.type, "{COMMAND_ARGS}", info.params))

\* The loop over the commands is over: the families are written, then the
\* entry point, which raises TypeError when the document has none.
commands_done ==
    /\ pc = "commands_loop"
    /\ command_i > Len(Doc.commands)
    /\ IF get_instance_proc_addr_info = None
       THEN /\ out' = out \o Map(family_entry, commands_groups)
            /\ pc' = "crashed"
       ELSE /\ out' = out \o Map(family_entry, commands_groups)
                          \o <<bootstrap_entry(get_instance_proc_addr_info[1])>>
            /\ pc' = after("parse_commands")
    /\ UNCHANGED << xml_file, root, files, TEMPLATES, HANDLE_NAMES, DEFINED_IDENTIFIERS,
                    loop, stack, commands_groups, get_instance_proc_addr_info, command_i,
                    printed, snake_name, snake_results >>

(***************************************************************************)
(* parse_extensions and the end of export()                                *)
(***************************************************************************)
parse_offset(elem, base_offset) ==
    LET offset == elem.offset[1] + base_offset
    IN <<ToString(IF elem.dir = <<"-">> THEN -offset ELSE offset)>>

parse_bitpos(x) == IF x # None THEN <<"1<<">> \o x ELSE x

value_or_offset_or_bitpos(x, offset) ==
    IF x.value # None THEN x.value
    ELSE IF parse_bitpos(x.bitpos) # None THEN parse_bitpos(x.bitpos)
    ELSE parse_offset(x, offset)

extension_offset(extension) == 1000000000 + ((extension.number - 1) * 1000)

extension_entry(extension) ==
    LET enum_line_of(e) ==
            Fmt2(TEMPLATES.ENUM_LINE_TEMPLATE, "{ENUM_NAME}", remove_prefix(e.name),
                 "{ENUM_VALUE}",
                 remove_prefix(value_or_offset_or_bitpos(e, extension_offset(extension))))
    IN Entry("extensions", "extension", extension.name, <<>>,
             Fmt2(TEMPLATES.EXTENSION_TEMPLATE, "{EXTENSION_NAME}", extension.name,
                  "{EXTENSION_ENUMS}", Join(Map(enum_line_of, extension.enums))))

\* "if require.find('enum').get('value') == '0': continue"
not_placeholder(extension) == extension.enums[1].value # <<"0">>

parse_extensions ==
    /\ pc = "parse_extensions"
    /\ out' = out \o <<Header("extensions", <<"\n", "# EXTENSIONS ", "\n", "\n">>)>>
                  \o Map(extension_entry, SelectSeq(Doc.extensions, not_placeholder))
    /\ pc' = after("parse_extensions")
    /\ UNCHANGED << xml_file, root, files, TEMPLATES, HANDLE_NAMES, DEFINED_IDENTIFIERS,
                    loop, stack, commands_groups, get_instance_proc_addr_info, command_i,
                    printed, snake_name, snake_results >>

add_post_initialization ==
    /\ pc = "add_post_initialization"
    /\ out' = Append(out, Header("post_initialization",
                  <<"\n", "\n">> \o TEMPLATES.POST_INITIALIZATION_TEMPLATE \o <<"\n">>))
    /\ pc' = after("add_post_initialization")
    /\ UNCHANGED << xml_file, root, files, TEMPLATES, HANDLE_NAMES, DEFINED_IDENTIFIERS,
                    loop, stack, commands_groups, get_instance_proc_addr_info, command_i,
                    printed, snake_name, snake_results >>

\* end_generation closes the output file: its content is what was written.
end_generation ==
    /\ pc = "end_generation"
    /\ files' = Append(files, out)
    /\ pc' = after("end_generation")
    /\ UNCHANGED << xml_file, root, out, TEMPLATES, HANDLE_NAMES, DEFINED_IDENTIFIERS,
                    loop, stack, commands_groups, get_instance_proc_addr_info, command_i,
                    printed, snake_name, snake_results >>

(***************************************************************************)
(* Specifications                                                          *)
(***************************************************************************)
\* The module has just been loaded and export() is about to run on some
\* document.
Init ==
    /\ xml_file \in DOCUMENTS
    /\ pc = "prepare_templates"
    /\ root = None
    /\ out = <<>>
    /\ files = <<>>
    /\ TEMPLATES = SOURCE_TEMPLATES
    /\ HANDLE_NAMES = <<>>
    /\ DEFINED_IDENTIFIERS = SEEDED_IDENTIFIERS
    /\ loop = 1
    /\ stack = <<>>
    /\ commands_groups = <<>>
    /\ get_instance_proc_addr_info = None
    /\ command_i = 1
    /\ printed = <<>>
    /\ snake_name = <<>>
    /\ snake_results = <<>>

Next ==
    \/ prepare_templates
    \/ load_xml
    \/ begin_generation
    \/ add_imports
    \/ add_initialization
    \/ parse_basetypes
    \/ parse_handles
    \/ parse_flags
    \/ parse_enums
    \/ parse_funcpointers
    \/ parse_structures_and_unions
    \/ call_top_level
    \/ resolve_dependency
    \/ write_declaration
    \/ structures_done
    \/ parse_commands
    \/ command_step
    \/ commands_done
    \/ parse_extensions
    \/ add_post_initialization
    \/ end_generation

\* One run of export() in a fresh interpreter.
Spec == Init /\ [][Next]_vars

\* Bounds of the two specifications below.
MaxRuns == 2
MaxNameLen == 5
MaxCalls == 2

\* export() is called again in the same interpreter, on the same document:
\* the module's globals keep the values the run before left in them.
export_again ==
    /\ pc = "done"
    /\ Len(files) < MaxRuns
    /\ pc' = EXPORT[1]
    /\ UNCHANGED << xml_file, root, out, files, TEMPLATES, HANDLE_NAMES,
                    DEFINED_IDENTIFIERS, loop, stack, commands_groups,
                    get_instance_proc_addr_info, command_i, printed, snake_name,
                    snake_results >>

NextTwice == Next \/ export_again

SpecTwice == Init /\ [][NextTwice]_vars

\* to_snake_case on its own: a caller holds an identifier and calls
\* to_snake_case on it, then on the result, and so on.
SNAKE_ALPHABET == {"a", "B", "_"}

SnakeInit ==
    /\ snake_name \in SeqsUpTo(SNAKE_ALPHABET, MaxNameLen)
    /\ snake_results = <<>>
    /\ xml_file = Document(DEFAULT_HANDLES, StructTypes(<<>>, 0, 0), UnionTypes(<<>>, 0, 0),
                           DEFAULT_COMMANDS)
    /\ pc = "to_snake_case"
    /\ root = None
    /\ out = <<>>
    /\ files = <<>>
    /\ TEMPLATES = SOURCE_TEMPLATES
    /\ HANDLE_NAMES = <<>>
    /\ DEFINED_IDENTIFIERS = SEEDED_IDENTIFIERS
    /\ loop = 1
    /\ stack = <<>>
    /\ commands_groups = <<>>
    /\ get_instance_proc_addr_info = None
    /\ command_i = 1
    /\ printed = <<>>

call_to_snake_case ==
    /\ pc = "to_snake_case"
    /\ Len(snake_results) < MaxCalls
    /\ snake_results' =
           Append(snake_results,
                  to_snake_case(IF snake_results = <<>> THEN snake_name
                                ELSE snake_results[Len(snake_results)]))
    /\ UNCHANGED << xml_file, snake_name >>
    /\ UNCHANGED export_vars

SnakeNext == call_to_snake_case

SnakeSpec == SnakeInit /\ [][SnakeNext]_vars

(***************************************************************************)
(* Properties                                                              *)
(***************************************************************************)
\* The positions of the output that hold a structure or union declaration.
StructDecls ==
    { i \in 1..Len(out) : out[i].stage = "structures" /\ out[i].kind = "decl" }

\* The identifier t is declared in the output before position i.
DeclaredBefore(t, i) == \E j \in 1..(i - 1) : out[j].kind = "decl" /\ out[j].decl = t

\* The names of the structures and unions the document declares.
EntityNames == IF root = None THEN {} ELSE { remove_prefix(e.name) : e \in Range(TopLevel) }

\* How many declarations of the structure or union t the output holds.
TimesDeclared(t) == Cardinality({ i \in StructDecls : out[i].decl = t })

\* parse_structures_and_unions has returned.
StructuresReturned ==
    pc = after("parse_structures_and_unions") \/ \E i \in 1..Len(out) : out[i].stage = "commands"

\* C1: topological validity.  Reading the output from first to last, every
\* member's base type of a written structure or union that is itself a
\* structure or union of the document has its declaration earlier in the
\* output.  (Base types the document declares nowhere are left aside: this
\* is weaker than the claim.)  The code does not keep it.
TopologicalValidity ==
    \A i \in StructDecls :
        \A k \in 1..Len(out[i].uses) :
            out[i].uses[k] \in EntityNames => DeclaredBefore(out[i].uses[k], i)

\* C2: idempotent resolution.  No structure or union is ever declared twice,
\* nothing but the document's structures and unions is declared by the
\* stage, and once the stage has returned each of them is declared exactly
\* once.
IdempotentResolution ==
    /\ \A i \in StructDecls : out[i].decl \in EntityNames
    /\ \A t \in EntityNames : TimesDeclared(t) <= 1
    /\ StructuresReturned => \A t \in EntityNames : TimesDeclared(t) = 1

\* C2's case: the stage has returned and two different structures share a
\* dependency, a third structure or union, which was resolved for one of
\* them and met again for the other.
SharedDependencyResolved ==
    /\ StructuresReturned
    /\ \E t \in EntityNames :
          \E i, j \in StructDecls :
              /\ i # j
              /\ out[i].decl # t /\ out[j].decl # t
              /\ t \in Range(out[i].uses) /\ t \in Range(out[j].uses)
              /\ DeclaredBefore(t, i) /\ DeclaredBefore(t, j)

\* The positions of the output that hold a '<Family>Functions' block, and the
\* keys of these blocks.
FamilyBlocks == { i \in 1..Len(out) : out[i].kind = "family" }

FamilyKeys == { out[i].decl : i \in FamilyBlocks }

\* parse_commands has returned (the entry point's block is its last write).
CommandsReturned == \E i \in 1..Len(out) : out[i].kind = "bootstrap"

\* How many times the command named n stands in the written family lists.
TimesFiled(n) ==
    Cardinality({ ik \in FamilyBlocks \X (1..MaxCommands + 1) :
                    ik[2] <= Len(out[ik[1]].uses) /\ out[ik[1]].uses[ik[2]] = n })

\* C3: command grouping completeness.  The entry point vkGetInstanceProcAddr
\* is never put in a family list, and once parse_commands has returned every
\* other command of the document stands in the written family lists exactly
\* once, the entry point in none.
CommandGroupingCompleteness ==
    /\ \A g \in 1..Len(commands_groups) :
          \A k \in 1..Len(commands_groups[g].cmds) :
              commands_groups[g].cmds[k].command_name # vk("GetInstanceProcAddr")
    /\ CommandsReturned =>
          \A c \in Range(Doc.commands) :
              TimesFiled(c.name) = IF c.name = vk("GetInstanceProcAddr") THEN 0 ELSE 1

\* C3's case: parse_commands has returned, having filed two commands in one
\* family and set the entry point aside.
TwoCommandsInOneFamily ==
    /\ CommandsReturned
    /\ \E i \in FamilyBlocks : Len(out[i].uses) >= 2

\* The command c of the document is one that belongs in the family k: it is
\* not the entry point and k is "Loader" when its first parameter's type is no
\* known handle, else "Instance" when it is vkGetDeviceProcAddr, else that type.
BelongsIn(c, k) ==
    /\ c.name # vk("GetInstanceProcAddr")
    /\ LET typed == SelectSeq(c.params, has_type)
           owner == map_ctypes(typed[1].type)
       IN /\ typed # <<>>
          /\ k = IF owner \notin Range(HANDLE_NAMES) THEN <<"Loader">>
                 ELSE IF c.name = vk("GetDeviceProcAddr") THEN <<"Instance">>
                 ELSE owner

\* C4 as claimed: once parse_commands has returned, the family keys are
\* exactly the known handle names and "Loader".  The code does not keep it.
FamilyKeysAreHandlesAndLoader ==
    CommandsReturned => FamilyKeys = Range(HANDLE_NAMES) \cup {<<"Loader">>}

\* C4 as amended: once parse_commands has returned, every family key is a
\* known handle name, "Loader" or the forced "Instance", no family is empty,
\* and a name is a key exactly when a command belongs in its family: a handle
\* name (or "Loader") that no command belongs to has no block.
FamilyKeysAmongHandlesAndLoader ==
    CommandsReturned =>
        /\ FamilyKeys \subseteq Range(HANDLE_NAMES) \cup {<<"Loader">>, <<"Instance">>}
        /\ \A i \in FamilyBlocks : out[i].uses # <<>>
        /\ \A k \in FamilyKeys \cup Range(HANDLE_NAMES) \cup {<<"Loader">>} :
              k \in FamilyKeys <=> \E c \in Range(Doc.commands) : BelongsIn(c, k)

\* C4's case: parse_commands has returned, one known handle has a family
\* block and another has none.
HandleWithoutFamily ==
    /\ CommandsReturned
    /\ \E h1, h2 \in Range(HANDLE_NAMES) : h1 \in FamilyKeys /\ h2 \notin FamilyKeys

\* The entity stages, and the positions of the output they wrote.
ENTITY_STAGES ==
    {"handles", "basetypes", "flags", "enums", "funcpointers", "structures", "commands",
     "extensions"}

EntityWrites == { i \in 1..Len(out) : out[i].stage \in ENTITY_STAGES }

ClaimedRank(stage) ==
    CASE stage = "handles" -> 1 [] stage = "basetypes" -> 2 [] stage = "flags" -> 3
      [] stage = "enums" -> 4 [] stage = "funcpointers" -> 5 [] stage = "structures" -> 6
      [] stage = "commands" -> 7 [] stage = "extensions" -> 8

ActualRank(stage) ==
    CASE stage = "basetypes" -> 1 [] stage = "handles" -> 2 [] stage = "flags" -> 3
      [] stage = "enums" -> 4 [] stage = "funcpointers" -> 5 [] stage = "structures" -> 6
      [] stage = "commands" -> 7 [] stage = "extensions" -> 8

\* C5 as claimed: the entity stages write in the order handles, basetypes,
\* bitmasks, enumerations, function pointers, structures and unions,
\* commands, extensions.  The code does not keep it.
ClaimedStageOrder ==
    \A i, j \in EntityWrites : i < j => ClaimedRank(out[i].stage) <= ClaimedRank(out[j].stage)

\* C5 as amended: the entity stages write in the order basetypes, handles,
\* bitmasks, enumerations, function pointers, structures and unions,
\* commands, extensions, each stage's writes in one block, and nothing of a
\* later stage is written while a structure or union is being resolved or
\* is still to be called.
ActualStageOrder ==
    /\ \A i, j \in EntityWrites : i < j => ActualRank(out[i].stage) <= ActualRank(out[j].stage)
    /\ (\E i \in EntityWrites : ActualRank(out[i].stage) > ActualRank("structures"))
          => stack = <<>> /\ loop > Len(TopLevel)

\* C5's case: export() has returned, having declared a basetype, a handle
\* and a structure and written an extension.
AllStagesWritten ==
    /\ pc = "done"
    /\ \A st \in ENTITY_STAGES : \E i \in EntityWrites : out[i].stage = st /\ out[i].kind # "header"

\* C6: deterministic output.  When export() has run twice on the same
\* document, the two output files are equal.  The code does not keep it.
DeterministicOutput == Len(files) >= 2 => files[2] = files[1]

\* C7: to_snake_case is idempotent: called on its own result, it returns the
\* result unchanged.  The code does not keep it.
SnakeCaseIdempotent == Len(snake_results) >= 2 => snake_results[2] = snake_results[1]

\* The identifier n has a declaration in the output.
Declared(n) == \E j \in 1..Len(out) : out[j].kind = "decl" /\ out[j].decl = n

\* The names of the structures and unions whose call is active.
InProgress == { stack[k].struct_name : k \in 1..Len(stack) }

RECURSIVE SumOf(_)
SumOf(ns) == IF ns = <<>> THEN 0 ELSE Head(ns) + SumOf(Tail(ns))

LeftOfFrame(frame) == Len(frame.members) - frame.i + 2

LeftOfEntity(e) ==
    IF remove_prefix(e.name) \in Range(DEFINED_IDENTIFIERS) THEN 0 ELSE Len(e.members) + 2

LeftOfStage ==
    (Len(TopLevel) + 1 - loop) + SumOf(Map(LeftOfFrame, stack)) + SumOf(Map(LeftOfEntity, TopLevel))

\* C9: cycle safety.  While the stage runs, no structure or union has two
\* active calls and the depth of the recursion does not exceed the number of
\* structures and unions of the document; every step of the stage either
\* ends it or makes what is left of it, a natural number, smaller.  (The
\* guards of the stage's four steps cover every state of the stage, so it
\* returns after finitely many steps.)
StructureStageTerminates ==
    /\ [](pc = "structures_loop" =>
             /\ Len(stack) <= Cardinality(EntityNames)
             /\ \A a, b \in 1..Len(stack) :
                   a # b => stack[a].struct_name # stack[b].struct_name
             /\ LeftOfStage >= 0)
    /\ [][pc = "structures_loop" =>
             \/ pc' = after("parse_structures_and_unions")
             \/ pc' = "structures_loop" /\ LeftOfStage' < LeftOfStage]_vars

\* C9's case: the member being looked at has the type of a structure or
\* union whose call is active, one further out than the innermost call.
CycleMet ==
    /\ pc = "structures_loop"
    /\ Len(stack) >= 2
    /\ Top.i <= Len(Top.members)
    /\ \E k \in 1..(Len(stack) - 1) :
          stack[k].struct_name = map_ctypes(Top.members[Top.i].type)

\* C10: cycle handling.  A written member whose base type is a structure or
\* union of the document that was still being resolved when the member was
\* written (its declaration is not earlier in the output) has the opaque
\* pointer in place of that name, and the cycle has been reported.  The code
\* does not keep it.
CycleBrokenByPlaceholder ==
    \A i \in StructDecls :
        \A k \in 1..Len(out[i].uses) :
            (out[i].uses[k] \in EntityNames /\ ~DeclaredBefore(out[i].uses[k], i))
                => /\ out[i].uses[k][1] \notin Range(out[i].fields[k].type)
                   /\ "c_void_p" \in Range(out[i].fields[k].type)
                   /\ \E m \in 1..Len(printed) : out[i].uses[k][1] \in Range(printed[m])

\* The string s holds the string p.
Contains(s, p) == \E a \in 0..(Len(s) - Len(p)) : SubSeq(s, a + 1, a + Len(p)) = p

\* The base type name t is not in the registry and no structure or union of
\* the document has the name 'Vk' + t.
Unresolved(t) ==
    /\ t \notin Range(DEFINED_IDENTIFIERS)
    /\ \A e \in Range(TopLevel) : e.name # <<"V", "k">> \o t

NotFoundReport(t) == t \o <<" was not found">>

\* The members of the document's structures and unions whose base type is
\* unresolved, as (entity, member) positions.
UnresolvedMembers ==
    { em \in (1..Len(TopLevel)) \X (1..MaxDeps + 1) :
        /\ em[2] <= Len(TopLevel[em[1]].members)
        /\ Unresolved(member_base_type(TopLevel[em[1]].members[em[2]])) }

\* The loop over the members' types is at a member whose base type is
\* unresolved.
AtMissingDependency ==
    /\ pc = "structures_loop"
    /\ stack # <<>>
    /\ Top.i <= Len(Top.members)
    /\ Unresolved(member_base_type(Top.members[Top.i]))

\* C11: a missing dependency is not fatal.  The step at a member whose base
\* type is unresolved reports "<name> was not found" and goes on to the next
\* member of the same call: no call is made, nothing is registered or
\* written, nothing is raised.  Every written structure or union with such
\* a member has the unresolved name in its text and in that member's type,
\* the report has been made, and its members that name a structure or union
\* of the document have all been resolved (their names are registered).  The
\* stage raises nothing, and when it returns every structure and union of
\* the document has been written and every member with an unresolved base
\* type has been reported once.
MissingDependencyNonFatal ==
    /\ [][AtMissingDependency =>
             /\ printed' = Append(printed, NotFoundReport(member_base_type(Top.members[Top.i])))
             /\ stack' = [stack EXCEPT ![Len(stack)].i = @ + 1]
             /\ pc' = pc
             /\ out' = out
             /\ DEFINED_IDENTIFIERS' = DEFINED_IDENTIFIERS]_vars
    /\ [](\A i \in StructDecls :
             \A k \in 1..Len(out[i].uses) :
                 Unresolved(out[i].uses[k]) =>
                     /\ Contains(out[i].text, out[i].uses[k])
                     /\ Contains(out[i].fields[k].type, out[i].uses[k])
                     /\ \E m \in 1..Len(printed) : printed[m] = NotFoundReport(out[i].uses[k])
                     /\ \A k2 \in 1..Len(out[i].uses) :
                            out[i].uses[k2] \in EntityNames
                                => out[i].uses[k2] \in Range(DEFINED_IDENTIFIERS))
    /\ [](pc = "crashed" => StructuresReturned)
    /\ [](StructuresReturned =>
             /\ \A n \in EntityNames : Declared(n)
             /\ Len(printed) = Cardinality(UnresolvedMembers))

\* C11's case: generation has ended on a document in which a structure has
\* a member with an unresolved base type followed by a member that names a
\* structure or union, and another structure or union was written after it.
MissingDependencyPassed ==
    /\ pc = "done"
    /\ \E i \in StructDecls :
          /\ \E k \in 1..Len(out[i].uses) :
                /\ Unresolved(out[i].uses[k])
                /\ \E k2 \in (k + 1)..Len(out[i].uses) : out[i].uses[k2] \in EntityNames
          /\ \E j \in StructDecls : j > i
====
